---- MODULE Spec2Model ----
(***************************************************************************)
(* Model of streamlit_daily_watchlist.py: the option-chain analyzer, the   *)
(* opportunity scorer, the per-ticker scan loop, the top-5 selection and   *)
(* the export steps, driven by Streamlit's rerun-on-interaction execution. *)
(*                                                                         *)
(* Numbers.  Volatility is held in thousandths (0.02 is 20), RSI, MACD and *)
(* signal in whole units, time in milliseconds.  The put/call ratio is the *)
(* exact quotient, held as [num, den] with den > 0; None is Null.          *)
(***************************************************************************)
EXTENDS Integers, Sequences, FiniteSets, TLC

\* ------------------------------------------------------------------ bounds
NumTickers == 3      \* tickers scanned (a prefix of the configured list)
MaxStrikes == 3      \* longest option-chain snapshot given to the analyzer
MaxRows    == 6      \* largest result table given to the top-5 selection

\* --------------------------------------------------------------- constants
Null == [none |-> TRUE]          \* Python's None
Failed == [error |-> "fetch"]    \* a provider call that raises, or empty price data

top_nse_stocks ==
    << "RELIANCE.NS", "TCS.NS", "HDFCBANK.NS", "INFY.NS", "ICICIBANK.NS",
       "HINDUNILVR.NS", "KOTAKBANK.NS", "SBIN.NS", "LT.NS", "ITC.NS" >>

ScanList == SubSeq(top_nse_stocks, 1, NumTickers)

TopN     == 5
SleepMs  == 500
VolHigh  == 20
VolMid   == 15
RsiLow   == 30
RsiHigh  == 70

Symbols         == {"NIFTY", "BANKNIFTY"}
RecipientInputs == {"", "a@example.com"}

\* ------------------------------------------------------- option-chain data
\* One per-strike record; oi gives the open interest of the sides it has,
\* e.g. Strike(100, [CE |-> 100]) is {"strikePrice": 100, "CE": {"openInterest": 100}}
Strike(k, oi) ==
    [x \in {"strikePrice"} |-> k] @@ [s \in DOMAIN oi |-> [openInterest |-> oi[s]]]

NoSide == [s \in {} |-> 0]

Chain(rows) == [records |-> [data |-> rows]]

RECURSIVE AnalyzeLoop(_, _, _, _)
AnalyzeLoop(rows, ce_oi_total, pe_oi_total, strikes) ==
    IF rows = << >>
    THEN [ce |-> ce_oi_total, pe |-> pe_oi_total, strikes |-> strikes]
    ELSE LET strike_data == Head(rows)
             ce == IF "CE" \in DOMAIN strike_data
                   THEN ce_oi_total + strike_data["CE"].openInterest
                   ELSE ce_oi_total
             pe == IF "PE" \in DOMAIN strike_data
                   THEN pe_oi_total + strike_data["PE"].openInterest
                   ELSE pe_oi_total
         IN  AnalyzeLoop(Tail(rows), ce, pe, Append(strikes, strike_data["strikePrice"]))

\* variant: the ratio cut to two decimals before it is returned
Quotient_truncated(pe_oi_total, ce_oi_total) ==
    [num |-> (100 * pe_oi_total) \div ce_oi_total, den |-> 100]

Quotient(pe_oi_total, ce_oi_total) == [num |-> pe_oi_total, den |-> ce_oi_total]

analyze_option_chain(data) ==
    LET t   == AnalyzeLoop(data.records.data, 0, 0, << >>)
        pcr == IF t.ce # 0 THEN Quotient(t.pe, t.ce) ELSE Null
    IN  [ce_oi |-> t.ce, pe_oi |-> t.pe, pcr |-> pcr, strikes |-> t.strikes]

\* ------------------------------------------------------------------ scorer
\* variant: macd = signal counted as a bullish crossover
MacdRule_ge(macd, signal) == IF macd >= signal THEN 1 ELSE -1

MacdRule(macd, signal) == IF macd > signal THEN 1 ELSE -1

\* pcr > 1.2 and pcr < 0.8 on the exact quotient (den > 0)
PcrAbove(pcr) == 5 * pcr.num > 6 * pcr.den
PcrBelow(pcr) == 5 * pcr.num < 4 * pcr.den

compute_scores(volatility, rsi, macd, signal, pcr) ==
    LET s0 == 0
        s1 == IF volatility > VolHigh THEN s0 + 2
              ELSE IF volatility > VolMid THEN s0 + 1 ELSE s0
        s2 == IF rsi < RsiLow THEN s1 + 1
              ELSE IF rsi > RsiHigh THEN s1 - 1 ELSE s1
        s3 == s2 + MacdRule(macd, signal)
    IN  IF pcr = Null THEN [exc |-> "TypeError", score |-> s3]   \* None > 1.2 raises
        ELSE IF PcrAbove(pcr) THEN [exc |-> "ok", score |-> s3 + 1]
        ELSE IF PcrBelow(pcr) THEN [exc |-> "ok", score |-> s3 + 1]
        ELSE [exc |-> "ok", score |-> s3]

\* ------------------------------------------------------------ result rows
\* round(pcr, 2): hundredths, ties to even
Round2(pcr) ==
    LET q == (100 * pcr.num) \div pcr.den
        r == (100 * pcr.num) % pcr.den
        h == IF 2 * r > pcr.den THEN q + 1
             ELSE IF 2 * r < pcr.den THEN q
             ELSE IF q % 2 = 0 THEN q ELSE q + 1
    IN  [num |-> h, den |-> 100]

\* "round(pcr,2) if pcr else None": None and 0.0 are both falsy
PcrCell(pcr) == IF pcr = Null \/ pcr.num = 0 THEN Null ELSE Round2(pcr)

MakeResult(ticker, stock, oc, score) ==
    [Ticker |-> ticker, Volatility |-> stock.volatility, RSI |-> stock.rsi,
     CallOI |-> oc.ce_oi, PutOI |-> oc.pe_oi, PCR |-> PcrCell(oc.pcr),
     Score |-> score]

\* What the providers can answer during a scan
StockProfiles ==
    { [volatility |-> 25, rsi |-> 20, macd |-> 1, signal |-> 0],
      [volatility |-> 18, rsi |-> 50, macd |-> 1, signal |-> 0],
      [volatility |-> 10, rsi |-> 80, macd |-> 0, signal |-> 0] }
StockOutcomes == {Failed} \cup StockProfiles

ScanSnapshots ==
    { Chain(<< Strike(100, [PE |-> 50]) >>),
      Chain(<< Strike(100, [CE |-> 100]), Strike(200, [PE |-> 50]) >>),
      Chain(<< Strike(100, [CE |-> 100, PE |-> 100]) >>) }
ChainOutcomes == {Failed} \cup ScanSnapshots

\* The body of the try block for one ticker: the exception it raises ("ok"
\* for none), the row it builds, and whether the option chain was requested.
TryBody(ticker, stock, chain) ==
    IF stock = Failed
    THEN [exc |-> "stock", row |-> Null, chain |-> Null]
    ELSE IF chain = Failed
    THEN [exc |-> "chain", row |-> Null, chain |-> chain]
    ELSE LET oc    == analyze_option_chain(chain)
             score == compute_scores(stock.volatility, stock.rsi, stock.macd,
                                     stock.signal, oc.pcr)
         IN  IF score.exc # "ok"
             THEN [exc |-> "score", row |-> Null, chain |-> chain]
             ELSE [exc |-> "ok", row |-> MakeResult(ticker, stock, oc, score.score),
                   chain |-> chain]

\* variant: newest row first
AppendResult_front(results, row) == << row >> \o results

AppendResult(results, row) == Append(results, row)

ExceptHandler(diagnostics, ticker) == Append(diagnostics, ticker)

\* variant: the first exception leaves the loop
LoopNext_break(index, exc) == IF exc = "ok" THEN index + 1 ELSE NumTickers + 1

LoopNext(index, exc) == index + 1

\* time.sleep(0.5) is the last statement of the try body
AfterIteration(t, exc) == IF exc = "ok" THEN t + SleepMs ELSE t

\* ------------------------------------------------------------- top-5 table
NonIncreasing(rows) ==
    \A a, b \in 1..Len(rows) : a < b => rows[a].Score >= rows[b].Score

\* sort_values(ascending=False) with the default sort kind, which is not
\* stable: any arrangement of the rows with non-increasing scores.
SortValues(rows) ==
    { s \in { [k \in 1..Len(rows) |-> rows[p[k]]] : p \in Permutations(1..Len(rows)) } :
        NonIncreasing(s) }

HeadRows(rows, n) == SubSeq(rows, 1, IF Len(rows) < n THEN Len(rows) ELSE n)

\* ------------------------------------------------------------------- state
VARIABLES
    pc,                  \* position of the script / of the function call
    symbol_for_options,  \* value of the index text input
    run_scan,            \* value of the button in the current execution
    email_alert,         \* session value of the email checkbox
    recipients,          \* session value of the recipients input
    page,                \* widgets on the page
    i,                   \* loop position in ScanList
    all_results,
    errors,              \* tickers named by st.error
    iterLog,             \* one record per loop iteration of this scan
    now,                 \* ms since the scan started
    top_stocks,
    out,                 \* outputs of the current execution
    arg, ret             \* argument and result of a function applied alone

vars == << pc, symbol_for_options, run_scan, email_alert, recipients, page, i,
           all_results, errors, iterLog, now, top_stocks, out, arg, ret >>

BasePage == {"symbol", "button"}

Init ==
    /\ pc = "top"
    /\ symbol_for_options = "NIFTY"
    /\ run_scan = FALSE
    /\ email_alert = FALSE
    /\ recipients = ""
    /\ page = {}
    /\ i = 1
    /\ all_results = << >>
    /\ errors = << >>
    /\ iterLog = << >>
    /\ now = 0
    /\ top_stocks = << >>
    /\ out = {}
    /\ arg = Null
    /\ ret = Null

\* The operator changes one widget of the page; Streamlit reruns the script.
\* The button is True only in the execution its click causes.  Interactions
\* are taken between executions; one made while the script runs would abandon
\* that execution and start the next, which no property below depends on.
Interact ==
    /\ pc = "idle"
    /\ \E w \in page, s \in Symbols, r \in RecipientInputs :
         /\ (w = "symbol") = (s # symbol_for_options)
         /\ (w = "recipients") = (r # recipients)
         /\ symbol_for_options' = s
         /\ recipients' = r
         /\ email_alert' = IF w = "checkbox" THEN ~email_alert ELSE email_alert
         /\ run_scan' = (w = "button")
    /\ pc' = "top"
    /\ UNCHANGED << page, i, all_results, errors, iterLog, now, top_stocks, out, arg, ret >>

\* Lines 91-103: a fresh execution.  Without the button click the script ends
\* here, and the session values of widgets it did not render are dropped.
ScriptTop ==
    /\ pc = "top"
    /\ page' = BasePage
    /\ i' = 1
    /\ all_results' = << >>
    /\ errors' = << >>
    /\ iterLog' = << >>
    /\ now' = 0
    /\ top_stocks' = << >>
    /\ out' = {}
    /\ IF run_scan /\ NumTickers > 0
       THEN /\ pc' = "loop"
            /\ UNCHANGED << email_alert, recipients >>
       ELSE /\ pc' = IF run_scan THEN "post" ELSE "idle"
            /\ email_alert' = (run_scan /\ email_alert)
            /\ recipients' = IF run_scan THEN recipients ELSE ""
    /\ UNCHANGED << symbol_for_options, run_scan, arg, ret >>

\* Lines 104-140: one iteration of the scan loop.
ScanTicker ==
    /\ pc = "loop"
    /\ \E stock \in StockOutcomes, chain \in ChainOutcomes :
         LET ticker == ScanList[i]
             b      == TryBody(ticker, stock, chain)
         IN  /\ (stock = Failed) => (chain = Failed)
             /\ all_results' = IF b.exc = "ok" THEN AppendResult(all_results, b.row)
                               ELSE all_results
             /\ errors' = IF b.exc = "ok" THEN errors ELSE ExceptHandler(errors, ticker)
             /\ iterLog' = Append(iterLog,
                   [ticker |-> ticker, stock |-> stock, chain |-> b.chain,
                    symbol |-> symbol_for_options, exc |-> b.exc,
                    start |-> now, end |-> now])
             /\ now' = AfterIteration(now, b.exc)
             /\ i' = LoopNext(i, b.exc)
             /\ pc' = IF LoopNext(i, b.exc) > Len(ScanList) THEN "post" ELSE "loop"
    /\ UNCHANGED << symbol_for_options, run_scan, email_alert, recipients, page,
                    top_stocks, out, arg, ret >>

\* Lines 142-162: tables, CSV and email.  An empty DataFrame has no
\* "Opportunity Score" column, so sort_values raises KeyError after the
\* watchlist table was rendered and the execution ends there.
PostLoop ==
    /\ pc = "post"
    /\ pc' = "idle"
    /\ IF all_results = << >>
       THEN /\ out' = out \cup {"watchlist", "exception"}
            /\ top_stocks' = << >>
            /\ page' = BasePage
            /\ email_alert' = FALSE
            /\ recipients' = ""
       ELSE /\ \E sorted \in SortValues(all_results) :
                  top_stocks' = HeadRows(sorted, TopN)
            /\ page' = BasePage \cup {"checkbox"}
                         \cup (IF email_alert THEN {"recipients"} ELSE {})
            /\ out' = out \cup {"watchlist", "top5", "csv"}
                        \cup (IF email_alert /\ recipients # "" THEN {"email"} ELSE {})
            /\ recipients' = IF email_alert THEN recipients ELSE ""
            /\ UNCHANGED email_alert
    /\ UNCHANGED << symbol_for_options, run_scan, i, all_results, errors, iterLog,
                    now, arg, ret >>

Next == Interact \/ ScriptTop \/ ScanTicker \/ PostLoop

Spec == Init /\ [][Next]_vars

\* The script runs on by itself; the operator need not act.
FairSpec == Spec /\ WF_vars(ScriptTop) /\ WF_vars(ScanTicker) /\ WF_vars(PostLoop)

\* ------------------------------------------- functions applied on their own
OIs   == {0, 50, 100}
Sides == UNION { [S -> OIs] : S \in SUBSET {"CE", "PE"} }

\* a snapshot of n strikes at 100, 200, ... with the sides f gives them
Snapshot(n, f) == Chain([j \in 1..n |-> Strike(100 * j, f[j])])

Ratios == { [num |-> 3, den |-> 5], [num |-> 4, den |-> 5], [num |-> 100, den |-> 100],
            [num |-> 6, den |-> 5], [num |-> 7, den |-> 5] }

ScoreInputs ==
    [volatility : {15, 16, 20, 21}, rsi : {29, 30, 70, 71},
     macd : {-1, 0, 1}, signal : {-1, 0, 1}, pcr : Ratios \cup {Null}]

NoScan ==
    /\ symbol_for_options = "NIFTY"
    /\ run_scan = FALSE
    /\ email_alert = FALSE
    /\ recipients = ""
    /\ page = {}
    /\ i = 1
    /\ all_results = << >>
    /\ errors = << >>
    /\ iterLog = << >>
    /\ now = 0
    /\ top_stocks = << >>
    /\ out = {}

scanVars == << symbol_for_options, run_scan, email_alert, recipients, page, i,
               all_results, errors, iterLog, now, top_stocks, out >>

InitAnalyze ==
    /\ pc = "call"
    /\ \E n \in 0..MaxStrikes : \E f \in [1..n -> Sides] : arg = Snapshot(n, f)
    /\ ret = Null
    /\ NoScan

CallAnalyze ==
    /\ pc = "call"
    /\ ret' = analyze_option_chain(arg)
    /\ pc' = "return"
    /\ UNCHANGED << arg, scanVars >>

SpecAnalyze == InitAnalyze /\ [][CallAnalyze]_vars

InitScore == pc = "call" /\ arg \in ScoreInputs /\ ret = Null /\ NoScan

CallScore ==
    /\ pc = "call"
    /\ ret' = compute_scores(arg.volatility, arg.rsi, arg.macd, arg.signal, arg.pcr)
    /\ pc' = "return"
    /\ UNCHANGED << arg, scanVars >>

SpecScore == InitScore /\ [][CallScore]_vars

\* The script at line 142 after a scan in which the first n configured tickers
\* were all scanned successfully against a chain whose ratio is 1.
FlatChain == Chain(<< Strike(100, [CE |-> 100, PE |-> 100]) >>)

InitTop ==
    /\ pc = "post"
    /\ symbol_for_options = "NIFTY"
    /\ run_scan = TRUE
    /\ email_alert = FALSE
    /\ recipients = ""
    /\ page = BasePage
    /\ \E n \in 1..MaxRows : \E f \in [1..n -> StockProfiles] :
         /\ i = n + 1
         /\ all_results = [j \in 1..n |-> TryBody(top_nse_stocks[j], f[j], FlatChain).row]
         /\ iterLog = [j \in 1..n |->
               [ticker |-> top_nse_stocks[j], stock |-> f[j], chain |-> FlatChain,
                symbol |-> "NIFTY", exc |-> "ok",
                start |-> (j - 1) * SleepMs, end |-> (j - 1) * SleepMs]]
         /\ now = n * SleepMs
    /\ errors = << >>
    /\ top_stocks = << >>
    /\ out = {}
    /\ arg = Null
    /\ ret = Null

SpecTop == InitTop /\ [][PostLoop]_vars

\* ------------------------------------------------------------------ claims
Range(seq) == { seq[j] : j \in 1..Len(seq) }
Pos(ticker) == CHOOSE j \in 1..Len(top_nse_stocks) : top_nse_stocks[j] = ticker
Count(seq, x) == Cardinality({ j \in 1..Len(seq) : seq[j] = x })
RowsOf(ticker) == { j \in 1..Len(all_results) : all_results[j].Ticker = ticker }
FailedTickers == { iterLog[j].ticker : j \in { k \in 1..Len(iterLog) : iterLog[k].exc # "ok" } }

\* C1: when the scan loop has ended, every configured ticker was attempted;
\* each ticker that did not fail has exactly one row and no diagnostic, each
\* ticker that failed has no row and exactly one diagnostic, and rows plus
\* diagnostics equal the number of configured tickers.
C1_IsolatedFailures ==
    pc = "post" =>
        /\ Len(iterLog) = NumTickers
        /\ { iterLog[j].ticker : j \in 1..Len(iterLog) } = Range(ScanList)
        /\ \A t \in Range(ScanList) :
             IF t \in FailedTickers
             THEN RowsOf(t) = {} /\ Count(errors, t) = 1
             ELSE Cardinality(RowsOf(t)) = 1 /\ Count(errors, t) = 0
        /\ Len(all_results) + Len(errors) = NumTickers

\* one failure, on the first ticker, and the rest of the list still scanned
C1_Witness ==
    /\ pc = "post"
    /\ errors = << ScanList[1] >>
    /\ Len(all_results) = NumTickers - 1

RECURSIVE SumSide(_, _, _)
SumSide(rows, side, js) ==
    IF js = {} THEN 0
    ELSE LET j == CHOOSE x \in js : TRUE
         IN  (IF side \in DOMAIN rows[j] THEN rows[j][side].openInterest ELSE 0)
             + SumSide(rows, side, js \ {j})

\* C2: the analyzer returns the sum of the call open interest of the records
\* with a call side, the sum of the put open interest of the records with a
\* put side, and a ratio that is None when the call total is 0 and otherwise
\* the exact quotient put total / call total.
C2_AnalyzerTotals ==
    pc = "return" =>
        LET rows == arg.records.data
            ce   == SumSide(rows, "CE", 1..Len(rows))
            pe   == SumSide(rows, "PE", 1..Len(rows))
        IN  /\ ret.ce_oi = ce
            /\ ret.pe_oi = pe
            /\ (ce = 0) => (ret.pcr = Null)
            /\ (ce # 0) => /\ ret.pcr # Null
                           /\ ret.pcr.den > 0
                           /\ ret.pcr.num * ce = pe * ret.pcr.den

\* the two-strike example: {CE 100}, {PE 50} gives 100, 50 and 0.5
C2_Witness ==
    /\ pc = "return"
    /\ arg = Chain(<< Strike(100, [CE |-> 100]), Strike(200, [PE |-> 50]) >>)
    /\ ret.ce_oi = 100
    /\ ret.pe_oi = 50
    /\ ret.pcr # Null
    /\ 2 * ret.pcr.num = ret.pcr.den

VolDelta(v)     == IF 1000 * v > 20 * 1000 THEN 2 ELSE IF 1000 * v > 15 * 1000 THEN 1 ELSE 0
RsiDelta(r)     == IF r < 30 THEN 1 ELSE IF r > 70 THEN -1 ELSE 0
MacdDelta(m, g) == IF m > g THEN 1 ELSE -1

\* C3: a scan iteration whose price data and option chain arrived and whose
\* chain has zero call open interest yields a row with a null PCR and a score
\* equal to the volatility, RSI and MACD contributions, and no diagnostic.
C3_NullPcrScored ==
    \A j \in 1..Len(iterLog) :
        LET e == iterLog[j] IN
        (e.stock # Failed /\ e.chain # Failed /\ e.chain # Null
           /\ analyze_option_chain(e.chain).pcr = Null)
        => /\ \E k \in RowsOf(e.ticker) :
                /\ all_results[k].PCR = Null
                /\ all_results[k].Score = VolDelta(e.stock.volatility)
                       + RsiDelta(e.stock.rsi) + MacdDelta(e.stock.macd, e.stock.signal)
           /\ Count(errors, e.ticker) = 0

\* C4: for non-null inputs the scorer returns the sum of the four rule groups
\* (volatility +2/+1/0, RSI +1/-1/0, MACD +1/-1, PCR +1/0), the two PCR
\* conditions never hold together, and the score lies in [-3, 5].
C4_ScoreRuleTable ==
    (pc = "return" /\ arg.pcr # Null) =>
        LET above == 10 * arg.pcr.num > 12 * arg.pcr.den
            below == 10 * arg.pcr.num < 8 * arg.pcr.den
        IN  /\ ret.exc = "ok"
            /\ ~(above /\ below)
            /\ ret.score = VolDelta(arg.volatility) + RsiDelta(arg.rsi)
                             + MacdDelta(arg.macd, arg.signal)
                             + (IF above \/ below THEN 1 ELSE 0)
            /\ ret.score \in -3..5

\* every input on a threshold: 0.02 scores +1, RSI 30 scores 0, macd = signal
\* scores -1, PCR 1.2 scores 0
C4_Witness ==
    /\ pc = "return"
    /\ arg = [volatility |-> 20, rsi |-> 30, macd |-> 0, signal |-> 0,
              pcr |-> [num |-> 6, den |-> 5]]
    /\ ret = [exc |-> "ok", score |-> 0]

Min(a, b) == IF a < b THEN a ELSE b
RowIndex(row) == CHOOSE j \in 1..Len(all_results) : all_results[j] = row

\* C5: after the script ended with a non-empty table, the top list is the
\* first min(5, n) rows of the table stably sorted by score descending:
\* rows of the table without repetition, scores non-increasing, no row left
\* out scoring higher than a row included, and rows of equal score kept (and
\* cut off) in scan order.
C5_StableTopFive ==
    (pc = "idle" /\ all_results # << >>) =>
        LET inc == Range(top_stocks)
            exc == Range(all_results) \ inc
        IN  /\ Len(top_stocks) = Min(TopN, Len(all_results))
            /\ inc \subseteq Range(all_results)
            /\ Cardinality(inc) = Len(top_stocks)
            /\ NonIncreasing(top_stocks)
            /\ \A a \in inc, b \in exc : b.Score <= a.Score
            /\ \A a, b \in 1..Len(top_stocks) :
                 (a < b /\ top_stocks[a].Score = top_stocks[b].Score)
                 => RowIndex(top_stocks[a]) < RowIndex(top_stocks[b])
            /\ \A a \in inc, b \in exc :
                 (a.Score = b.Score) => RowIndex(a) < RowIndex(b)

\* C6: when an execution that scanned ends with every ticker failed, it ends
\* with the error surfaced and nothing else produced: no watchlist table, no
\* top table, no CSV, no email.
C6_NoPartialOutput ==
    (pc = "idle" /\ run_scan /\ Len(errors) = NumTickers) =>
        /\ "exception" \in out
        /\ out \cap {"watchlist", "top5", "csv", "email"} = {}

\* C7: once the operator has ticked the email checkbox, the recipients input
\* is eventually offered or the email is eventually sent.
C7_EmailOptInHonoured ==
    email_alert ~> ("recipients" \in page \/ "email" \in out)

\* C8: every iteration after the first starts at least the fixed delay after
\* the previous iteration ended.
C8_DelayBetweenIterations ==
    \A j \in 2..Len(iterLog) : iterLog[j].start - iterLog[j - 1].end >= SleepMs

\* C9: in one scan the option chain is requested at most once, and any two
\* rows carry the same Call OI, Put OI and PCR.
C9_SharedSnapshot ==
    /\ \A a, b \in Range(all_results) :
         a.CallOI = b.CallOI /\ a.PutOI = b.PutOI /\ a.PCR = b.PCR
    /\ Cardinality({ j \in 1..Len(iterLog) : iterLog[j].chain # Null }) <= 1

C10_Inv ==
    /\ Len(iterLog) <= NumTickers
    /\ \A j \in 1..Len(iterLog) : iterLog[j].ticker = ScanList[j]
    /\ (pc = "loop") => (i = Len(iterLog) + 1)
    /\ Len(all_results) + Len(errors) = Len(iterLog)
    /\ \A j \in 1..Len(iterLog) :
         IF iterLog[j].exc = "ok"
         THEN Cardinality(RowsOf(iterLog[j].ticker)) = 1 /\ Count(errors, iterLog[j].ticker) = 0
         ELSE RowsOf(iterLog[j].ticker) = {} /\ Count(errors, iterLog[j].ticker) = 1
    /\ \A j \in 1..Len(iterLog) - 1 : iterLog[j].end <= iterLog[j + 1].start
    /\ \A a, b \in 1..Len(all_results) :
         a < b => Pos(all_results[a].Ticker) < Pos(all_results[b].Ticker)
    /\ \A r \in Range(all_results) : r.Ticker \in Range(ScanList)

C10_AppendOnly ==
    (pc = "loop") =>
        /\ Len(all_results') \in { Len(all_results), Len(all_results) + 1 }
        /\ SubSeq(all_results', 1, Len(all_results)) = all_results
        /\ Len(iterLog') = Len(iterLog) + 1

\* C10: during a scan the tickers are attempted once each in configured
\* order, every attempt ends in a row or a diagnostic before the next starts,
\* nothing is retried, and the table only grows at its end, so its tickers
\* are a duplicate-free subsequence of the configured list.
C10_SequentialAppendOnly == []C10_Inv /\ [][C10_AppendOnly]_vars

\* a failure in the middle of the list, with rows before and after it
C10_Witness ==
    /\ pc = "post"
    /\ NumTickers >= 3
    /\ errors = << ScanList[2] >>
    /\ all_results[1].Ticker = ScanList[1]
    /\ all_results[2].Ticker = ScanList[3]

====
